---- MODULE Spec2Model ----
(***************************************************************************)
(* State-machine model of services/vector_store.py (class VectorStore)     *)
(* together with the Streamlit session entry 'vector_store_data' it saves  *)
(* itself into.  The FAISS IndexFlatL2 the store wraps is modelled by what *)
(* the store relies on: add() appends rows and asserts the row width,      *)
(* search() returns the k nearest rows by squared L2 distance (padding     *)
(* with label -1 when it holds fewer than k rows), write_index/read_index  *)
(* flatten the rows into a buffer and rebuild them.                        *)
(*                                                                         *)
(* Beside the store stand services/embeddings.py's chunk_text, followed    *)
(* turn by turn of its while loop over texts of letters, blanks and        *)
(* sentence ends with Python's indexing and slicing of negative offsets,   *)
(* process_documents_for_embedding built on it, and the floating-point     *)
(* arithmetic of the similarity score.  Each has its own specification;    *)
(* the variables of the others stay at their initial values.               *)
(***************************************************************************)
EXTENDS Integers, Sequences, FiniteSets, TLC

(* ------------------------------ bounds --------------------------------- *)
\* most vectors / chunks the model lets a store hold
MaxSize == 2
\* most rows (and most chunk records) in one create_index / add_documents call
MaxBatch == 2
\* largest top_k passed to search
MaxK == 2

\* embedding widths the callers use (a second width is what a mismatch needs)
Dims == {1, 2}
\* coordinate values of the embedding rows
Coords == {0, 1}

\* the rows the callers pass: of each width, the rows whose coordinates are all
\* the same value
Vectors(d) == {[j \in 1..d |-> c] : c \in Coords}
AllVectors == UNION {Vectors(d) : d \in Dims}

\* self.dimension = None
NoDimension == 0
\* the ghost tag of a chunk record that was passed without a row beside it
NoRow == <<>>

(* --------------------------- input values ------------------------------ *)
SeqsUpTo(S, lo, hi) == UNION {[1..n -> S] : n \in lo..hi}

\* np.array([]): what generate_embeddings returns when the model is missing
\* or encode() raised; one axis, length 0
Empty1D == [ndim |-> 1, d |-> 0, rows |-> <<>>]

\* a 2-D float array of n >= 1 rows of width d
Arrays2D ==
    UNION {{[ndim |-> 2, d |-> d, rows |-> r] : r \in SeqsUpTo(Vectors(d), 1, MaxBatch)} :
             d \in Dims}

EmbArrays == {Empty1D} \cup Arrays2D

\* the chunk records passed beside an array: m records, the i-th tagged
\* (ghost field emb) with the row it was passed beside, if there is one
DocBatch(emb, m) ==
    [i \in 1..m |-> [emb |-> IF i <= Len(emb.rows) THEN emb.rows[i] ELSE NoRow]]

(* ------------------------- the FAISS flat index ------------------------ *)
\* self.index = None
NoIndex == [present |-> FALSE, d |-> 0, xb |-> <<>>]

\* faiss.IndexFlatL2(d)
IndexFlatL2(d) == [present |-> TRUE, d |-> d, xb |-> <<>>]

\* index.ntotal
ntotal(idx) == Len(idx.xb)

\* (mutant) index.add without the width assertion
IndexAddRaises_NoWidth(idx, emb) == emb.ndim # 2

\* index.add(x) raises: "n, d = x.shape" needs two axes, "assert d == self.d"
IndexAddRaises(idx, emb) == emb.ndim # 2 \/ emb.d # idx.d

\* index.add(x): the rows are appended in order
IndexAdd(idx, emb) == [idx EXCEPT !.xb = @ \o emb.rows]

\* faiss.write_index: the flat index as a buffer, header (d, ntotal) and the
\* rows' float32 values one after the other (row-major)
RECURSIVE Flatten(_)
Flatten(xb) == IF xb = <<>> THEN <<>> ELSE Head(xb) \o Flatten(Tail(xb))

write_index(idx) ==
    [readable |-> TRUE, d |-> idx.d, ntotal |-> ntotal(idx), codes |-> Flatten(idx.xb)]

\* bytes faiss.read_index cannot parse
Garbage == [readable |-> FALSE, d |-> 0, ntotal |-> 0, codes |-> <<>>]

\* faiss.read_index raises on bytes that are no index
ReadIndexRaises(bytes) == ~bytes.readable

\* (mutant) the buffer read back column by column
read_index_ColumnMajor(bytes) ==
    [present |-> TRUE, d |-> bytes.d,
     xb |-> [i \in 1..bytes.ntotal |->
               [j \in 1..bytes.d |-> bytes.codes[(j - 1) * bytes.ntotal + i]]]]

\* faiss.read_index: the rows are cut back out of the buffer
read_index(bytes) ==
    [present |-> TRUE, d |-> bytes.d,
     xb |-> [i \in 1..bytes.ntotal |->
               [j \in 1..bytes.d |-> bytes.codes[(i - 1) * bytes.d + j]]]]

\* squared Euclidean distance of two rows of the same width
RECURSIVE SumSq(_, _, _)
SumSq(v, q, j) ==
    IF j = 0 THEN 0 ELSE (v[j] - q[j]) * (v[j] - q[j]) + SumSq(v, q, j - 1)

L2sqr(v, q) == SumSq(v, q, Len(v))

\* the distance FAISS reports beside the label -1 (the largest float32,
\* here a number above every distance of the model's rows)
NoNeighbourDist == 1000000

\* index.search raises: "assert d == self.d" on the query's width
IndexSearchRaises(idx, q) == Len(q) # idx.d

\* the scan of the flat index keeps its candidates nearest first; a row takes
\* its place before the first candidate that is strictly farther, so rows as
\* near as each other stay in the order they were added
RECURSIVE Insert(_, _)
Insert(sorted, e) ==
    IF sorted = <<>> THEN <<e>>
    ELSE IF e.dist < Head(sorted).dist THEN <<e>> \o sorted
    ELSE <<Head(sorted)>> \o Insert(Tail(sorted), e)

\* rows 1..i of the index, ranked by distance to q
RECURSIVE Ranked(_, _, _)
Ranked(idx, q, i) ==
    IF i = 0 THEN <<>>
    ELSE Insert(Ranked(idx, q, i - 1), [dist |-> L2sqr(idx.xb[i], q), row |-> i])

\* the first k places of a ranking, as (distances, labels): labels are
\* 0-based, places beyond the ranking hold label -1
Places(ranked, k) ==
    [D |-> [p \in 1..k |-> IF p <= Len(ranked) THEN ranked[p].dist ELSE NoNeighbourDist],
     I |-> [p \in 1..k |-> IF p <= Len(ranked) THEN ranked[p].row - 1 ELSE -1]]

\* index.search(x, k)
IndexSearch(idx, q, k) == Places(Ranked(idx, q, ntotal(idx)), k)

(* --------------------------- VectorStore ------------------------------- *)
\* Python's list[idx]: a negative idx counts from the end
PyItem(list, idx) == IF idx >= 0 THEN list[idx + 1] ELSE list[Len(list) + idx + 1]

\* similarity = 1 / (1 + distance), kept as the fraction num/den
Similarity(distance) == [num |-> 1, den |-> 1 + distance]

\* the loop of search over zip(distances[0], indices[0]), from place p on
RECURSIVE ResultsFrom(_, _, _)
ResultsFrom(docs, found, p) ==
    IF p > Len(found.I) THEN <<>>
    ELSE (IF found.I[p] < Len(docs)
          THEN <<[doc |-> PyItem(docs, found.I[p]),
                  similarity |-> Similarity(found.D[p])]>>
          ELSE <<>>) \o ResultsFrom(docs, found, p + 1)

\* k=min(top_k, len(self.documents))
ClampK(top_k, docs) == IF top_k < Len(docs) THEN top_k ELSE Len(docs)

\* (mutant) the empty check without the test of the chunk list
SearchSeesEmpty_IndexOnly(idx, docs) == ~idx.present

\* search takes the early "Vector store is empty!" return
SearchSeesEmpty(idx, docs) == ~idx.present \/ Len(docs) = 0

\* what search returns on the path past the empty check and the FAISS call
SearchResults(idx, docs, q, top_k) ==
    ResultsFrom(docs, IndexSearch(idx, q, ClampK(top_k, docs)), 1)

\* get_stats()
get_stats(idx, docs, dim) ==
    [num_documents |-> Len(docs),
     dimension |-> dim,
     has_index |-> idx.present,
     index_size |-> IF idx.present THEN ntotal(idx) ELSE 0]

\* what a call of search hands back and shows: the early return on an empty
\* store, the except branch when FAISS raises, or the result loop
SearchOutcome(idx, docs, q, top_k) ==
    IF SearchSeesEmpty(idx, docs)
    THEN [path |-> "empty", msg |-> "warning", results |-> <<>>]
    ELSE IF IndexSearchRaises(idx, q)
    THEN [path |-> "except", msg |-> "error", results |-> <<>>]
    ELSE [path |-> "loop", msg |-> "none",
          results |-> SearchResults(idx, docs, q, top_k)]

\* the (distances, labels) pair the FAISS call of search yields, when made
SearchFound(idx, docs, q, top_k) ==
    IF SearchSeesEmpty(idx, docs) \/ IndexSearchRaises(idx, q)
    THEN [D |-> <<>>, I |-> <<>>]
    ELSE IndexSearch(idx, q, ClampK(top_k, docs))

(* ------------------ the arithmetic of the similarity ------------------- *)
\* A binary floating-point number is m * 2^e with m = 0 or m of exactly p
\* significant bits; every operation rounds its exact result to the nearest
\* such number, ties to the even m.  FAISS hands the distances over as
\* float32; "1 + distance" and "1 / ..." are then done in float32 or in
\* float64, depending on the NumPy release that promotes the Python int 1.
\* The model keeps the two widths apart but small.
DistBits == 3
WideBits == 5
\* the distances tried are m * 2^e with e in -MaxExp .. MaxExp, and zero
MaxExp == 6

RECURSIVE Pow2(_)
Pow2(n) == IF n = 0 THEN 1 ELSE 2 * Pow2(n - 1)

\* the number of significant bits of n
RECURSIVE Width(_)
Width(n) == IF n = 0 THEN 0 ELSE 1 + Width(n \div 2)

FZero == [m |-> 0, e |-> 0]
FOne(p) == [m |-> Pow2(p - 1), e |-> 1 - p]

\* the exact value n * 2^k (n >= 1) rounded to p significant bits
Round(n, k, p) ==
    IF Width(n) <= p
    THEN [m |-> n * Pow2(p - Width(n)), e |-> k - (p - Width(n))]
    ELSE LET s  == Width(n) - p
             q  == n \div Pow2(s)
             r  == n % Pow2(s)
             up == r > Pow2(s - 1) \/ (r = Pow2(s - 1) /\ q % 2 = 1)
         IN  IF up /\ q + 1 = Pow2(p)
             THEN [m |-> Pow2(p - 1), e |-> k + s + 1]
             ELSE [m |-> IF up THEN q + 1 ELSE q, e |-> k + s]

\* 1 + d, rounded to p bits
FAddOne(d, p) ==
    IF d.m = 0 THEN FOne(p)
    ELSE LET k == IF d.e < 0 THEN d.e ELSE 0
         IN  Round(Pow2(0 - k) + d.m * Pow2(d.e - k), k, p)

\* 1 / x for x > 0 of p bits, rounded to p bits
FRecip(x, p) ==
    LET n  == Pow2(2 * p - 1)
        q  == n \div x.m
        r  == n % x.m
        up == 2 * r > x.m \/ (2 * r = x.m /\ q % 2 = 1)
    IN  Round(IF up THEN q + 1 ELSE q, (1 - 2 * p) - x.e, p)

\* a < b, for two numbers >= 0 of one width
FLess(a, b) ==
    IF a.m = 0 \/ b.m = 0 THEN a.m = 0 /\ b.m > 0
    ELSE a.e < b.e \/ (a.e = b.e /\ a.m < b.m)

\* the float32 distances tried
Distances ==
    {FZero} \cup {[m |-> m, e |-> e] : m \in Pow2(DistBits - 1)..(Pow2(DistBits) - 1),
                                        e \in (0 - MaxExp)..MaxExp}

\* the two widths the arithmetic may be done in
ArithBits == {DistBits, WideBits}

\* (mutant) the score without the reciprocal
similarity_NoReciprocal(distance, p) == FAddOne(distance, p)

\* similarity = 1 / (1 + distance), as the floating-point unit computes it
similarity(distance, p) == FRecip(FAddOne(distance, p), p)

(* ------------------- EmbeddingService.chunk_text ----------------------- *)
\* the characters of the texts: a letter, a blank, a sentence end
Alphabet == {"a", " ", "."}

\* the argument values the small calls of chunk_text are made with
MaxLen == 6
MaxChunk == 5
MaxOverlap == 5
\* most loop iterations of one call the model follows
MaxIter == 12

Texts == SeqsUpTo(Alphabet, 0, MaxLen)
ChunkSizes == (-1)..MaxChunk
Overlaps == 0..MaxOverlap

\* the look-back window of the boundary search (end - 100)
Lookback == 100

Max(a, b) == IF a >= b THEN a ELSE b
Min(a, b) == IF a <= b THEN a ELSE b

\* Python's s[i] raises IndexError outside -len(s) .. len(s) - 1
PyIndexRaises(s, i) == i >= Len(s) \/ i < -Len(s)

\* Python's s[a:b]: the 0-based half-open window a slice bound pair stands
\* for (a negative bound counts from the end, then both are clamped)
SliceBound(s, b) == IF b < 0 THEN Max(b + Len(s), 0) ELSE Min(b, Len(s))
SliceWindow(s, a, b) == [lo |-> SliceBound(s, a), hi |-> SliceBound(s, b)]

\* the characters of a window
Cut(s, w) == IF w.lo < w.hi THEN SubSeq(s, w.lo + 1, w.hi) ELSE <<>>
PySlice(s, a, b) == Cut(s, SliceWindow(s, a, b))

\* str.strip()
RECURSIVE LStrip(_)
LStrip(s) == IF s # <<>> /\ Head(s) = " " THEN LStrip(Tail(s)) ELSE s

RECURSIVE RStrip(_)
RStrip(s) ==
    IF s # <<>> /\ s[Len(s)] = " " THEN RStrip(SubSeq(s, 1, Len(s) - 1)) ELSE s

Strip(s) == RStrip(LStrip(s))

\* (mutant) a boundary search that ends the window two past the sentence end
RECURSIVE BoundaryScan_TwoPast(_, _, _, _)
ScanOn_TwoPast(upper, txt, i, lower, end) ==
    IF upper.raises \/ upper.found THEN upper
    ELSE BoundaryScan_TwoPast(txt, i, lower, end)

BoundaryScan_TwoPast(txt, i, lower, end) ==
    IF i <= lower THEN [raises |-> FALSE, found |-> FALSE, end |-> end]
    ELSE IF i = lower + 1
    THEN (IF PyIndexRaises(txt, i) THEN [raises |-> TRUE, found |-> FALSE, end |-> end]
          ELSE IF PyItem(txt, i) = "." THEN [raises |-> FALSE, found |-> TRUE, end |-> i + 2]
          ELSE [raises |-> FALSE, found |-> FALSE, end |-> end])
    ELSE ScanOn_TwoPast(BoundaryScan_TwoPast(txt, i, (i + lower) \div 2, end),
                        txt, (i + lower) \div 2, lower, end)

\* for i in range(end, lower, -1): if text[i] in '.!?': end = i + 1; break
\* The indices i, i-1, ..., lower+1 are visited from the top: the upper half
\* of them first, and the lower half only if the upper half neither raised
\* nor found a sentence end (found tells a break from a search that ran out).
RECURSIVE BoundaryScan(_, _, _, _)
ScanOn(upper, txt, i, lower, end) ==
    IF upper.raises \/ upper.found THEN upper
    ELSE BoundaryScan(txt, i, lower, end)

BoundaryScan(txt, i, lower, end) ==
    IF i <= lower THEN [raises |-> FALSE, found |-> FALSE, end |-> end]
    ELSE IF i = lower + 1
    THEN (IF PyIndexRaises(txt, i) THEN [raises |-> TRUE, found |-> FALSE, end |-> end]
          ELSE IF PyItem(txt, i) = "." THEN [raises |-> FALSE, found |-> TRUE, end |-> i + 1]
          ELSE [raises |-> FALSE, found |-> FALSE, end |-> end])
    ELSE ScanOn(BoundaryScan(txt, i, (i + lower) \div 2, end),
                txt, (i + lower) \div 2, lower, end)

\* (mutant) a pass whose boundary search reads the characters before the
\* boundary only, one place lower than line 81 does
Iteration_SearchBefore(txt, size, ovl, st) ==
    LET end0 == st + size
        scan == IF end0 < Len(txt)
                THEN BoundaryScan(txt, end0 - 1,
                                  Max(st + (size \div 2), end0 - Lookback) - 1, end0)
                ELSE [raises |-> FALSE, end |-> end0]
    IN  [raises |-> scan.raises, end |-> scan.end,
         window |-> SliceWindow(txt, st, scan.end),
         chunk  |-> Strip(PySlice(txt, st, scan.end)),
         start  |-> scan.end - ovl]

\* (mutant) a pass that moves on to the character after the overlap
Iteration_Gap(txt, size, ovl, st) ==
    LET end0 == st + size
        scan == IF end0 < Len(txt)
                THEN BoundaryScan(txt, end0, Max(st + (size \div 2), end0 - Lookback), end0)
                ELSE [raises |-> FALSE, end |-> end0]
    IN  [raises |-> scan.raises,
         end    |-> scan.end,
         window |-> SliceWindow(txt, st, scan.end),
         chunk  |-> Strip(PySlice(txt, st, scan.end)),
         start  |-> scan.end - ovl + 1]

\* one pass of the while body entered at offset st: where the window ends,
\* the chunk it cuts, the next offset
Iteration(txt, size, ovl, st) ==
    LET end0 == st + size
        scan == IF end0 < Len(txt)
                THEN BoundaryScan(txt, end0, Max(st + (size \div 2), end0 - Lookback), end0)
                ELSE [raises |-> FALSE, end |-> end0]
    IN  [raises |-> scan.raises,
         end    |-> scan.end,
         window |-> SliceWindow(txt, st, scan.end),
         chunk  |-> Strip(PySlice(txt, st, scan.end)),
         start  |-> scan.end - ovl]

\* the while loop of chunk_text, lines 75-93, run from offset st with the
\* chunks acc appended so far, to its end: the list returned, the IndexError
\* raised, or the offset met a second time ("endless")
RECURSIVE LoopFrom(_, _, _, _, _, _)

LoopStep(txt, size, ovl, st, acc, visited, it) ==
    IF it.raises THEN [outcome |-> "IndexError", chunks |-> acc]
    ELSE LoopFrom(txt, size, ovl, it.start,
                  IF it.chunk # <<>> THEN Append(acc, it.chunk) ELSE acc,
                  visited \cup {st})

LoopFrom(txt, size, ovl, st, acc, visited) ==
    IF st >= Len(txt) THEN [outcome |-> "returned", chunks |-> acc]
    ELSE IF st \in visited THEN [outcome |-> "endless", chunks |-> acc]
    ELSE IF Cardinality(visited) >= MaxIter THEN [outcome |-> "unfinished", chunks |-> acc]
    ELSE LoopStep(txt, size, ovl, st, acc, visited, Iteration(txt, size, ovl, st))

\* a whole call chunk_text(text, chunk_size, overlap)
chunk_text_result(txt, size, ovl) ==
    IF Len(txt) <= size
    THEN [outcome |-> "returned", chunks |-> <<txt>>]
    ELSE LoopFrom(txt, size, ovl, 0, <<>>, {})

(* ---------- EmbeddingService.process_documents_for_embedding ----------- *)
\* the overlap chunk_text is called with: its default
DefaultOverlap == 200
\* most documents in one call
MaxDocs == 3
\* the length of the long contents
LongLen == 700

\* the chunk sizes passed: one below the default overlap, and the least value
\* and the default of the "Text chunk size" slider
ChunkSizeArgs == {100, 500, 1000}

\* a long content: letters, with sentence ends and blanks at the given places
LongText(dots, blanks) ==
    SubSeq([i \in 1..LongLen |->
              IF i \in dots THEN "." ELSE IF i \in blanks THEN " " ELSE "a"], 1, LongLen)

\* the documents' contents: none (no 'content' key), empty, blank, short, long
\* without a sentence end, long with a sentence end before the first cut and
\* blanks where the chunks begin and end
NoContent == [has |-> FALSE, content |-> <<>>]
Contents ==
    {NoContent}
      \cup {[has |-> TRUE, content |-> c] :
              c \in {<<>>, <<" ", " ">>, <<"a", ".", " ", "a">>,
                     LongText({}, {}), LongText({451}, {1, 252, 450, 700})}}

\* the document lists: the i-th document carries title i
DocLists ==
    UNION {{[i \in 1..n |-> [title |-> i, has |-> f[i].has, content |-> f[i].content]] :
              f \in [1..n -> Contents]} : n \in 0..MaxDocs}

\* doc.get('content', '')
GetContent(doc) == IF doc.has THEN doc.content ELSE <<>>

\* (mutant) the records of a document numbered from 1
ChunkDocs_OneBased(doc, chs) ==
    [i \in 1..Len(chs) |->
        [content |-> chs[i], title |-> doc.title,
         chunk_id |-> i, total_chunks |-> Len(chs)]]

\* the records of one document: for i, chunk in enumerate(chunks); title
\* stands for the fields copied from the document (title, url, source,
\* metadata)
ChunkDocs(doc, chs) ==
    [i \in 1..Len(chs) |->
        [content |-> chs[i], title |-> doc.title,
         chunk_id |-> i - 1, total_chunks |-> Len(chs)]]

\* the loop over documents from the k-th on, acc the records appended so far
RECURSIVE ProcessFrom(_, _, _, _)

ProcessDoc(docs, size, k, acc, res) ==
    IF res.outcome # "returned"
    THEN [outcome |-> res.outcome, processed_chunks |-> <<>>]
    ELSE ProcessFrom(docs, size, k + 1, acc \o ChunkDocs(docs[k], res.chunks))

ProcessFrom(docs, size, k, acc) ==
    IF k > Len(docs) THEN [outcome |-> "returned", processed_chunks |-> acc]
    ELSE IF GetContent(docs[k]) = <<>> THEN ProcessFrom(docs, size, k + 1, acc)
    ELSE ProcessDoc(docs, size, k, acc,
                    chunk_text_result(GetContent(docs[k]), size, DefaultOverlap))

(* --------------- GeminiClient.answer_question_with_context ------------- *)
\* strings are sequences of characters
MaxCtxDocs == 3
MaxBudget == 60

SourcePrefix == <<"S", "o", "u", "r", "c", "e", ":", " ">>
ContentPrefix == <<"\n", "C", "o", "n", "t", "e", "n", "t", ":", " ">>
Untitled == <<"U", "n", "t", "i", "t", "l", "e", "d">>
Separator == <<"\n", "-", "-", "-", "\n">>

\* a key of a chunk record: absent, or present with a string
NoKey == [has |-> FALSE, val |-> <<>>]
Key(s) == [has |-> TRUE, val |-> s]

\* doc.get(key, default)
DictGet(entry, default) == IF entry.has THEN entry.val ELSE default

\* the chunk records handed over: with or without a title, with an empty or a
\* non-empty url, without content or with five characters of it
CtxDocKinds ==
    [title : {NoKey, Key(<<"T">>)},
     url : {Key(<<>>), Key(<<"u">>)},
     content : {NoKey, Key(<<"c", "c", "c", "c", "c">>)}]

CtxDocLists == SeqsUpTo(CtxDocKinds, 0, MaxCtxDocs)
Budgets == 0..MaxBudget

\* lines 107-114: the text one context document is formatted to
doc_text(doc) ==
    LET content == DictGet(doc.content, <<>>)
        title == DictGet(doc.title, Untitled)
        url == DictGet(doc.url, <<>>)
    IN  SourcePrefix \o title
          \o (IF url # <<>> THEN <<" ", "(">> \o url \o <<")">> ELSE <<>>)
          \o ContentPrefix \o content \o <<"\n">>

\* (mutant) a loop that passes over a document that does not fit and goes on
RECURSIVE ContextParts_Continue(_, _, _, _, _)
ContextParts_Continue(docs, max, p, parts, current_length) ==
    IF p > Len(docs) THEN parts
    ELSE IF current_length + Len(doc_text(docs[p])) > max
    THEN ContextParts_Continue(docs, max, p + 1, parts, current_length)
    ELSE ContextParts_Continue(docs, max, p + 1, Append(parts, doc_text(docs[p])),
                               current_length + Len(doc_text(docs[p])))

\* the loop of lines 106-120 from document p on: context_parts when it ends
RECURSIVE ContextParts(_, _, _, _, _)
ContextParts(docs, max, p, parts, current_length) ==
    IF p > Len(docs) THEN parts
    ELSE IF current_length + Len(doc_text(docs[p])) > max
    THEN parts
    ELSE ContextParts(docs, max, p + 1, Append(parts, doc_text(docs[p])),
                      current_length + Len(doc_text(docs[p])))

\* sep.join(parts)
RECURSIVE Join(_, _)
Join(sep, parts) ==
    IF parts = <<>> THEN <<>>
    ELSE IF Len(parts) = 1 THEN parts[1]
    ELSE parts[1] \o sep \o Join(sep, Tail(parts))

(* ------------------------------ state ---------------------------------- *)
VARIABLES
    index,      \* self.index: NoIndex or the flat index
    documents,  \* self.documents: the list of chunk records
    dimension,  \* self.dimension: NoDimension or the width
    session,    \* st.session_state['vector_store_data'], or NoSession
    aliased,    \* the session record's 'documents' is the very list self.documents
    call,       \* the last call made and its arguments
    ret,        \* what it returned: "True", "False", "None", or "list" (see results)
    msg,        \* the st.success / st.error / st.warning it showed, or "none"
    results,    \* the list the last search returned
    found,      \* the (distances, labels) FAISS gave the last search
    snap,       \* history: the store as it was at the last save that wrote a record
    dist,       \* two distances a search reported
    arith,      \* the width the scores were computed in, 0 before they are
    score,      \* the scores computed for dist, <<>> before they are
    text,       \* chunk_text: the argument text
    chunk_size, \* chunk_text: the argument chunk_size
    overlap,    \* chunk_text: the argument overlap
    start,      \* chunk_text: the local start
    chunks,     \* chunk_text: the local chunks, and the list returned
    windows,    \* history: the window of text each appended chunk was cut from
    seen,       \* history: the values of start the loop was entered with
    pc,         \* chunk_text: "idle", "loop", "returned" or "IndexError"
    input_documents,  \* process_documents_for_embedding: the argument documents
    arg_chunk_size,   \* process_documents_for_embedding: the argument chunk_size
    processed_chunks, \* process_documents_for_embedding: the list returned
    outcome,    \* process_documents_for_embedding: "idle", "returned",
                \* "IndexError" or "endless"
    context_documents,  \* answer_question_with_context: the argument
    max_context_length, \* answer_question_with_context: the argument
    context_parts,      \* answer_question_with_context: the local context_parts
    context,            \* answer_question_with_context: the local context
    answered,   \* answer_question_with_context: "idle", "question_only" (the
                \* return of line 100) or "prompted" (the return of line 135)
    flow,       \* the last ingestion the application ran, and what it was given
    writer,     \* a thread inside add_documents, load_from_session_state or
                \* clear: the call, the statement it is at, the store it met
    reader      \* a thread in search or save_to_session_state: what it read

\* the variables of the store and its session record
svars == <<index, documents, dimension, session, aliased, call, ret, msg, results,
           found, snap>>
\* the variables of the score computation
fvars == <<dist, arith, score>>
\* the variables of a chunk_text call
cvars == <<text, chunk_size, overlap, start, chunks, windows, seen, pc>>

\* the variables of a process_documents_for_embedding call
pvars == <<input_documents, arg_chunk_size, processed_chunks, outcome>>

\* the variables of an answer_question_with_context call
gvars == <<context_documents, max_context_length, context_parts, context, answered>>

\* the variable of the application's ingestion paths
avars == <<flow>>

\* the variables of two threads that share one store
tvars == <<writer, reader>>

vars == <<svars, fvars, cvars, pvars, gvars, avars, tvars>>

store == <<index, documents, dimension>>

Keys == {"index_bytes", "documents", "dimension"}

NoSession ==
    [present |-> FALSE, keys |-> {}, index_bytes |-> Garbage,
     documents |-> <<>>, dimension |-> NoDimension]

NoCall == [op |-> "init", n |-> 0, d |-> 0, m |-> 0, q |-> <<>>, k |-> 0]
NoFound == [D |-> <<>>, I |-> <<>>]
NoSnap == [phase |-> "none", index |-> NoIndex, documents |-> <<>>,
           dimension |-> NoDimension]

\* no score is being computed
NoScore == dist = <<FZero, FZero>> /\ arith = 0 /\ score = <<>>

\* no chunk_text call is under way
NoChunking ==
    /\ text = <<>> /\ chunk_size = 0 /\ overlap = 0
    /\ start = 0 /\ chunks = <<>> /\ windows = <<>> /\ seen = {}
    /\ pc = "idle"

\* no process_documents_for_embedding call is under way
NoProcessing ==
    /\ input_documents = <<>> /\ arg_chunk_size = 0
    /\ processed_chunks = <<>> /\ outcome = "idle"

\* no answer_question_with_context call is under way
NoAnswering ==
    /\ context_documents = <<>> /\ max_context_length = 0
    /\ context_parts = <<>> /\ context = <<>> /\ answered = "idle"

\* the application has run no ingestion
NoFlow == [path |-> "none", provider |-> "up", books |-> <<>>, extracted |-> <<>>]
NoIngestion == flow = NoFlow

\* no thread is inside a call of the store
IdleWriter ==
    [op |-> "none", pc |-> "idle", emb |-> Empty1D, docs |-> <<>>,
     before |-> <<NoIndex, <<>>, NoDimension>>]
NoReader == [op |-> "none", during |-> FALSE, seen |-> <<NoIndex, <<>>, NoDimension>>]
NoThreads == writer = IdleWriter /\ reader = NoReader

\* __init__
Init ==
    /\ index = NoIndex
    /\ documents = <<>>
    /\ dimension = NoDimension
    /\ session = NoSession
    /\ aliased = FALSE
    /\ call = NoCall
    /\ ret = "None"
    /\ msg = "none"
    /\ results = <<>>
    /\ found = NoFound
    /\ snap = NoSnap
    /\ NoScore
    /\ NoChunking
    /\ NoProcessing
    /\ NoAnswering
    /\ NoIngestion
    /\ NoThreads

\* the session record sees an in-place change of the list it shares
Shared(docs) == IF aliased THEN [session EXCEPT !.documents = docs] ELSE session

\* (mutant) create_index that builds the index but leaves self.dimension alone
create_index_body_NoBind(emb, docs) ==
    IF Len(emb.rows) = 0
    THEN /\ UNCHANGED <<index, documents, dimension, session, aliased>>
         /\ ret' = "False" /\ msg' = "error"
    ELSE /\ Len(emb.rows) <= MaxSize /\ Len(docs) <= MaxSize
         /\ dimension' = dimension
         /\ index' = IndexAdd(IndexFlatL2(emb.d), emb)
         /\ documents' = docs
         /\ aliased' = FALSE
         /\ session' = session
         /\ ret' = "True" /\ msg' = "success"

\* the body of create_index: the new values of the store and what is returned
create_index_body(emb, docs) ==
    IF Len(emb.rows) = 0
    THEN /\ UNCHANGED <<index, documents, dimension, session, aliased>>
         /\ ret' = "False" /\ msg' = "error"
    ELSE /\ Len(emb.rows) <= MaxSize /\ Len(docs) <= MaxSize
         /\ dimension' = emb.d
         /\ index' = IndexAdd(IndexFlatL2(emb.d), emb)
         /\ documents' = docs
         /\ aliased' = FALSE
         /\ session' = session
         /\ ret' = "True" /\ msg' = "success"

\* the history of saves: anything but a save, an add that worked or a load
\* ends the run of calls the snapshot claims speak of
Stale == snap' = NoSnap

\* create_index as its caller uses it: add_documents line 61 is the only call
\* site in the repository, taken while self.index is None
create_index(emb, docs) ==
    /\ UNCHANGED <<fvars, cvars, pvars, gvars, avars, tvars>>
    /\ ~index.present
    /\ call' = [NoCall EXCEPT !.op = "create_index", !.n = Len(emb.rows),
                                !.d = emb.d, !.m = Len(docs)]
    /\ create_index_body(emb, docs)
    /\ results' = <<>> /\ found' = NoFound
    /\ Stale

add_documents(emb, docs) ==
    /\ UNCHANGED <<fvars, cvars, pvars, gvars, avars, tvars>>
    /\ call' = [NoCall EXCEPT !.op = "add_documents", !.n = Len(emb.rows),
                                !.d = emb.d, !.m = Len(docs)]
    /\ results' = <<>> /\ found' = NoFound
    /\ IF ~index.present
       THEN create_index_body(emb, docs)
       ELSE IF IndexAddRaises(index, emb)
       THEN /\ UNCHANGED <<index, documents, dimension, session, aliased>>
            /\ ret' = "False" /\ msg' = "error"
       ELSE /\ ntotal(index) + Len(emb.rows) <= MaxSize
            /\ Len(documents) + Len(docs) <= MaxSize
            /\ index' = IndexAdd(index, emb)
            /\ documents' = documents \o docs
            /\ session' = Shared(documents')
            /\ UNCHANGED <<dimension, aliased>>
            /\ ret' = "True" /\ msg' = "success"
    /\ IF ret' = "True" /\ snap.phase \in {"saved", "added"}
       THEN snap' = [snap EXCEPT !.phase = "added"]
       ELSE Stale

\* (mutant) a search that keeps only the chunks it was asked for
search_Consuming(q, top_k) ==
    /\ UNCHANGED <<fvars, cvars, pvars, gvars, avars, tvars>>
    /\ call' = [NoCall EXCEPT !.op = "search", !.q = q, !.k = top_k]
    /\ ret' = "list"
    /\ found' = SearchFound(index, documents, q, top_k)
    /\ IF SearchSeesEmpty(index, documents)
       THEN msg' = "warning" /\ results' = <<>>
       ELSE IF IndexSearchRaises(index, q)
       THEN msg' = "error" /\ results' = <<>>
       ELSE msg' = "none" /\ results' = ResultsFrom(documents, found', 1)
    /\ documents' = SubSeq(documents, 1, ClampK(top_k, documents))
    /\ session' = Shared(documents')
    /\ UNCHANGED <<index, dimension, aliased>>
    /\ Stale

search(q, top_k) ==
    /\ UNCHANGED <<fvars, cvars, pvars, gvars, avars, tvars>>
    /\ call' = [NoCall EXCEPT !.op = "search", !.q = q, !.k = top_k]
    /\ ret' = "list"
    /\ found' = SearchFound(index, documents, q, top_k)
    /\ IF SearchSeesEmpty(index, documents)
       THEN msg' = "warning" /\ results' = <<>>
       ELSE IF IndexSearchRaises(index, q)
       THEN msg' = "error" /\ results' = <<>>
       ELSE msg' = "none" /\ results' = ResultsFrom(documents, found', 1)
    /\ UNCHANGED <<index, documents, dimension, session, aliased>>
    /\ Stale

\* a call of get_stats(): the dict it returns is get_stats(index, documents,
\* dimension) of the state it leaves
get_stats_call ==
    /\ UNCHANGED <<fvars, cvars, pvars, gvars, avars, tvars>>
    /\ call' = [NoCall EXCEPT !.op = "get_stats"]
    /\ ret' = "dict" /\ msg' = "none"
    /\ results' = <<>> /\ found' = NoFound
    /\ UNCHANGED <<index, documents, dimension, session, aliased>>
    /\ Stale

save_to_session_state ==
    /\ UNCHANGED <<fvars, cvars, pvars, gvars, avars, tvars>>
    /\ call' = [NoCall EXCEPT !.op = "save_to_session_state"]
    /\ ret' = "None"
    /\ results' = <<>> /\ found' = NoFound
    /\ UNCHANGED <<index, documents, dimension>>
    /\ IF index.present
       THEN /\ session' = [present |-> TRUE, keys |-> Keys,
                           index_bytes |-> write_index(index),
                           documents |-> documents,
                           dimension |-> dimension]
            /\ aliased' = TRUE
            /\ msg' = "success"
            /\ snap' = [phase |-> "saved", index |-> index,
                        documents |-> documents, dimension |-> dimension]
       ELSE /\ UNCHANGED <<session, aliased>>
            /\ msg' = "none"
            /\ Stale

\* the try block of load_from_session_state, statement by statement, on a
\* store whose fields are (idx, docs, dim, al): a missing key or unreadable
\* bytes ends it where it stands
load_body(idx, docs, dim, al) ==
    IF ~session.present
    THEN /\ index' = idx /\ documents' = docs /\ dimension' = dim /\ aliased' = al
         /\ ret' = "False" /\ msg' = "none"
    ELSE IF "index_bytes" \notin session.keys \/ ReadIndexRaises(session.index_bytes)
    THEN /\ index' = idx /\ documents' = docs /\ dimension' = dim /\ aliased' = al
         /\ ret' = "False" /\ msg' = "error"
    ELSE IF "documents" \notin session.keys
    THEN /\ index' = read_index(session.index_bytes)
         /\ documents' = docs /\ dimension' = dim /\ aliased' = al
         /\ ret' = "False" /\ msg' = "error"
    ELSE IF "dimension" \notin session.keys
    THEN /\ index' = read_index(session.index_bytes)
         /\ documents' = session.documents
         /\ aliased' = TRUE
         /\ dimension' = dim
         /\ ret' = "False" /\ msg' = "error"
    ELSE /\ index' = read_index(session.index_bytes)
         /\ documents' = session.documents
         /\ aliased' = TRUE
         /\ dimension' = session.dimension
         /\ ret' = "True" /\ msg' = "success"

\* the history after a load: straight after the save, or after adds that
\* followed the save
AfterLoad ==
    IF ret' = "True" /\ snap.phase = "saved"
    THEN snap' = [snap EXCEPT !.phase = "roundtrip"]
    ELSE IF ret' = "True" /\ snap.phase = "added"
    THEN snap' = [snap EXCEPT !.phase = "loaded"]
    ELSE IF snap.phase = "cleared"
    THEN snap' = [snap EXCEPT !.phase = "reloaded"]
    ELSE Stale

load_from_session_state ==
    /\ UNCHANGED <<fvars, cvars, pvars, gvars, avars, tvars>>
    /\ call' = [NoCall EXCEPT !.op = "load_from_session_state"]
    /\ results' = <<>> /\ found' = NoFound
    /\ load_body(index, documents, dimension, aliased)
    /\ UNCHANGED session
    /\ AfterLoad

\* a fresh store loaded from the session: VectorStore() and then
\* load_from_session_state() on it, as main() does
fresh_load ==
    /\ UNCHANGED <<fvars, cvars, pvars, gvars, avars, tvars>>
    /\ call' = [NoCall EXCEPT !.op = "fresh_load"]
    /\ results' = <<>> /\ found' = NoFound
    /\ load_body(NoIndex, <<>>, NoDimension, FALSE)
    /\ UNCHANGED session
    /\ AfterLoad

\* the history after a clear: it remembers that a save came before
AfterClear ==
    IF snap.phase \in {"saved", "added", "roundtrip", "loaded", "cleared"}
    THEN snap' = [NoSnap EXCEPT !.phase = "cleared"]
    ELSE Stale

\* (mutant) a clear that forgets to reset self.dimension
clear_KeepsDimension ==
    /\ UNCHANGED <<fvars, cvars, pvars, gvars, avars, tvars>>
    /\ call' = [NoCall EXCEPT !.op = "clear"]
    /\ index' = NoIndex
    /\ documents' = <<>>
    /\ dimension' = dimension
    /\ session' = NoSession
    /\ aliased' = FALSE
    /\ ret' = "None" /\ msg' = "success"
    /\ results' = <<>> /\ found' = NoFound
    /\ AfterClear

\* (mutant) a clear that leaves st.session_state['vector_store_data'] alone
clear_KeepsSession ==
    /\ UNCHANGED <<fvars, cvars, pvars, gvars, avars, tvars>>
    /\ call' = [NoCall EXCEPT !.op = "clear"]
    /\ index' = NoIndex
    /\ documents' = <<>>
    /\ dimension' = NoDimension
    /\ session' = session
    /\ aliased' = FALSE
    /\ ret' = "None" /\ msg' = "success"
    /\ results' = <<>> /\ found' = NoFound
    /\ AfterClear

clear ==
    /\ UNCHANGED <<fvars, cvars, pvars, gvars, avars, tvars>>
    /\ call' = [NoCall EXCEPT !.op = "clear"]
    /\ index' = NoIndex
    /\ documents' = <<>>
    /\ dimension' = NoDimension
    /\ session' = NoSession
    /\ aliased' = FALSE
    /\ ret' = "None" /\ msg' = "success"
    /\ results' = <<>> /\ found' = NoFound
    /\ AfterClear

\* the session record damaged behind the store's back: its index bytes made
\* unreadable, or its 'documents' or 'dimension' entry removed
tamper(damage) ==
    /\ UNCHANGED <<fvars, cvars, pvars, gvars, avars, tvars>>
    /\ session.present /\ session.keys = Keys /\ session.index_bytes.readable
    /\ session' = IF damage = "index_bytes"
                  THEN [session EXCEPT !.index_bytes = Garbage]
                  ELSE [session EXCEPT !.keys = @ \ {damage}]
    /\ aliased' = (aliased /\ damage # "documents")
    /\ call' = [NoCall EXCEPT !.op = "tamper"]
    /\ ret' = "None" /\ msg' = "none"
    /\ results' = <<>> /\ found' = NoFound
    /\ UNCHANGED <<index, documents, dimension>>
    /\ Stale

Next ==
    \/ \E emb \in EmbArrays, m \in 0..MaxBatch : create_index(emb, DocBatch(emb, m))
    \/ \E emb \in EmbArrays, m \in 0..MaxBatch : add_documents(emb, DocBatch(emb, m))
    \/ \E q \in AllVectors, k \in 1..MaxK : search(q, k)
    \/ get_stats_call
    \/ save_to_session_state
    \/ load_from_session_state
    \/ fresh_load
    \/ clear

Spec == Init /\ [][Next]_vars

\* the callers that pass one chunk record per row
NextMatched ==
    \/ \E emb \in EmbArrays : create_index(emb, DocBatch(emb, Len(emb.rows)))
    \/ \E emb \in EmbArrays : add_documents(emb, DocBatch(emb, Len(emb.rows)))
    \/ \E q \in AllVectors, k \in 1..MaxK : search(q, k)
    \/ get_stats_call
    \/ save_to_session_state
    \/ load_from_session_state
    \/ fresh_load
    \/ clear

SpecMatched == Init /\ [][NextMatched]_vars

\* the store beside a session record that something else may damage
NextCorrupt ==
    \/ NextMatched
    \/ \E damage \in Keys : tamper(damage)

SpecCorrupt == Init /\ [][NextCorrupt]_vars

(* ----------------------- the score computation ------------------------ *)
\* two results of one search, any two distances FAISS may have reported
InitScore ==
    /\ index = NoIndex /\ documents = <<>> /\ dimension = NoDimension
    /\ session = NoSession /\ aliased = FALSE
    /\ call = NoCall /\ ret = "None" /\ msg = "none"
    /\ results = <<>> /\ found = NoFound /\ snap = NoSnap
    /\ dist \in Distances \X Distances
    /\ arith = 0 /\ score = <<>>
    /\ NoChunking
    /\ NoProcessing
    /\ NoAnswering
    /\ NoIngestion
    /\ NoThreads

\* the loop body of search, line 106, on each of the two distances
score_results(p) ==
    /\ score = <<>>
    /\ arith' = p
    /\ score' = <<similarity(dist[1], p), similarity(dist[2], p)>>
    /\ UNCHANGED <<svars, cvars, pvars, gvars, avars, tvars, dist>>

NextScore == \E p \in ArithBits : score_results(p)

SpecScore == InitScore /\ [][NextScore]_vars

(* --------------------------- chunk_text calls -------------------------- *)
InitChunk ==
    /\ index = NoIndex /\ documents = <<>> /\ dimension = NoDimension
    /\ session = NoSession /\ aliased = FALSE
    /\ call = NoCall /\ ret = "None" /\ msg = "none"
    /\ results = <<>> /\ found = NoFound /\ snap = NoSnap
    /\ NoScore
    /\ NoChunking
    /\ NoProcessing
    /\ NoAnswering
    /\ NoIngestion
    /\ NoThreads

\* (mutant) an early return that trims the text
chunk_text_Stripped(txt, size, ovl) ==
    /\ pc = "idle"
    /\ text' = txt /\ chunk_size' = size /\ overlap' = ovl
    /\ start' = 0 /\ seen' = {}
    /\ IF Len(txt) <= size
       THEN /\ chunks' = <<Strip(txt)>>
            /\ windows' = <<[lo |-> 0, hi |-> Len(txt)]>>
            /\ pc' = "returned"
       ELSE /\ chunks' = <<>>
            /\ windows' = <<>>
            /\ pc' = "loop"
    /\ UNCHANGED <<svars, fvars, pvars, gvars, avars, tvars>>

\* chunk_text(text, chunk_size, overlap) up to the loop: the early return of
\* lines 69-70, or chunks = [] and start = 0
chunk_text(txt, size, ovl) ==
    /\ pc = "idle"
    /\ text' = txt /\ chunk_size' = size /\ overlap' = ovl
    /\ start' = 0 /\ seen' = {}
    /\ IF Len(txt) <= size
       THEN /\ chunks' = <<txt>>
            /\ windows' = <<[lo |-> 0, hi |-> Len(txt)]>>
            /\ pc' = "returned"
       ELSE /\ chunks' = <<>>
            /\ windows' = <<>>
            /\ pc' = "loop"
    /\ UNCHANGED <<svars, fvars, pvars, gvars, avars, tvars>>

\* one turn of the while loop, lines 75-93, from the test of the loop
\* condition to the break; the loop is followed until it comes back to an
\* offset it was entered with before (from there on it repeats itself)
chunk_text_loop ==
    /\ pc = "loop"
    /\ start \notin seen
    /\ Cardinality(seen) < MaxIter
    /\ IF start >= Len(text)
       THEN /\ pc' = "returned"
            /\ UNCHANGED <<start, chunks, windows, seen>>
       ELSE IF Iteration(text, chunk_size, overlap, start).raises
       THEN /\ pc' = "IndexError"
            /\ UNCHANGED <<start, chunks, windows, seen>>
       ELSE /\ start' = Iteration(text, chunk_size, overlap, start).start
            /\ seen' = seen \cup {start}
            /\ IF Iteration(text, chunk_size, overlap, start).chunk # <<>>
               THEN /\ chunks' = Append(chunks, Iteration(text, chunk_size, overlap, start).chunk)
                    /\ windows' = Append(windows, Iteration(text, chunk_size, overlap, start).window)
               ELSE UNCHANGED <<chunks, windows>>
            /\ pc' = IF start' >= Len(text) THEN "returned" ELSE "loop"
    /\ UNCHANGED <<text, chunk_size, overlap, svars, fvars, pvars, gvars, avars, tvars>>

\* texts long enough for the "end - 100" side of the search range to be the
\* lower one: no sentence end, or one sentence end 200, 100, 99 or 0
\* characters before index chunk_size, for chunk_size = 500
LongTexts ==
    {LongText({}, {})} \cup {LongText({i + 1}, {}) : i \in {300, 400, 401, 500}}
LongSizes == {500}
LongOverlaps == {0, DefaultOverlap}

NextChunk ==
    \/ /\ pc = "idle"
       /\ \E txt \in Texts, size \in ChunkSizes, ovl \in Overlaps :
             chunk_text(txt, size, ovl)
    \/ /\ pc = "idle"
       /\ \E txt \in LongTexts, size \in LongSizes, ovl \in LongOverlaps :
             chunk_text(txt, size, ovl)
    \/ chunk_text_loop

SpecChunk == InitChunk /\ [][NextChunk]_vars

(* ---------------- process_documents_for_embedding calls ---------------- *)
InitProcess ==
    /\ index = NoIndex /\ documents = <<>> /\ dimension = NoDimension
    /\ session = NoSession /\ aliased = FALSE
    /\ call = NoCall /\ ret = "None" /\ msg = "none"
    /\ results = <<>> /\ found = NoFound /\ snap = NoSnap
    /\ NoScore
    /\ NoChunking
    /\ NoProcessing
    /\ NoAnswering
    /\ NoIngestion
    /\ NoThreads

\* what a call leaves: res is what the loop over the documents came to
process_returns(docs, size, res) ==
    /\ input_documents' = docs /\ arg_chunk_size' = size
    /\ processed_chunks' = res.processed_chunks
    /\ outcome' = res.outcome
    /\ UNCHANGED <<svars, fvars, cvars, gvars, avars, tvars>>

\* process_documents_for_embedding(documents, chunk_size)
process_documents_for_embedding(docs, size) ==
    /\ outcome = "idle"
    /\ process_returns(docs, size, ProcessFrom(docs, size, 1, <<>>))

NextProcess ==
    /\ outcome = "idle"
    /\ \E docs \in DocLists, size \in ChunkSizeArgs :
          process_documents_for_embedding(docs, size)

SpecProcess == InitProcess /\ [][NextProcess]_vars

(* ----------------- answer_question_with_context calls ------------------ *)
InitAnswer ==
    /\ index = NoIndex /\ documents = <<>> /\ dimension = NoDimension
    /\ session = NoSession /\ aliased = FALSE
    /\ call = NoCall /\ ret = "None" /\ msg = "none"
    /\ results = <<>> /\ found = NoFound /\ snap = NoSnap
    /\ NoScore
    /\ NoChunking
    /\ NoProcessing
    /\ NoAnswering
    /\ NoIngestion
    /\ NoThreads

\* answer_question_with_context(question, context_documents,
\* max_context_length) up to the prompt it hands to generate_response
answer_question_with_context(docs, max) ==
    /\ answered = "idle"
    /\ context_documents' = docs
    /\ max_context_length' = max
    /\ IF docs = <<>>
       THEN /\ context_parts' = <<>>
            /\ context' = <<>>
            /\ answered' = "question_only"
       ELSE /\ context_parts' = ContextParts(docs, max, 1, <<>>, 0)
            /\ context' = Join(Separator, context_parts')
            /\ answered' = "prompted"
    /\ UNCHANGED <<svars, fvars, cvars, pvars, avars, tvars>>

NextAnswer ==
    /\ answered = "idle"
    /\ \E docs \in CtxDocLists, max \in Budgets : answer_question_with_context(docs, max)

SpecAnswer == InitAnswer /\ [][NextAnswer]_vars

(* ---------------- the application's ingestion paths -------------------- *)
\* what a handler of app.py does to st.session_state.vector_store, as a
\* function of the store (index, documents, dimension, session record)
MinContent == 100
MaxMsg == 74
MaxIngest == 2
EmbDim == 1

FailedPrefix ==
    <<"F", "a", "i", "l", "e", "d", " ", "t", "o", " ",
      "e", "x", "t", "r", "a", "c", "t", " ",
      "c", "o", "n", "t", "e", "n", "t", ":", " ">>

Letters(n, c) == SubSeq([i \in 1..n |-> c], 1, n)

\* the record extract_from_url returns when it caught an exception e, for
\* str(e) of n characters
ErrorRecord(n) ==
    [title |-> "Error", has |-> TRUE, content |-> FailedPrefix \o Letters(n, "e"),
     method |-> "error"]

\* the record extract_from_url returns for a page of n characters of text
PageRecord(n) ==
    [title |-> "Page", has |-> TRUE, content |-> Letters(n, "a"), method |-> "beautifulsoup"]

\* a book of the corpus loader, a local text or the text of an uploaded file
BookRecord(n) ==
    [title |-> "Book", has |-> TRUE, content |-> Letters(n, "b"), method |-> "corpus"]

\* what extract_multiple_urls may return: failures with a short and with a
\* long message, pages at and above the length the filter asks for
Extractions ==
    SeqsUpTo({ErrorRecord(MaxMsg - 1), ErrorRecord(MaxMsg),
              PageRecord(MinContent), PageRecord(MinContent + 1)}, 0, MaxIngest)

\* what the corpus loader or the OCR service may return: texts, empty or not
Books == SeqsUpTo({BookRecord(0), BookRecord(MinContent + 2)}, 0, MaxIngest)

Providers == {"up", "down"}

\* values of the "Text chunk size" slider
SliderSizes == {500, 1000}

\* SentenceTransformer.encode: one row of width EmbDim per text, the same
\* row for the same text
Encode(txt) == [j \in 1..EmbDim |-> Len(txt) % 2]

\* generate_embeddings(texts): np.array([]) when the model is missing or
\* encode raised, else the array encode returned
generate_embeddings(texts, provider) ==
    IF provider = "down" \/ texts = <<>> THEN Empty1D
    ELSE [ndim |-> 2, d |-> EmbDim, rows |-> [i \in 1..Len(texts) |-> Encode(texts[i])]]

\* embeddings.size
ArraySize(emb) == Len(emb.rows) * emb.d

\* [chunk['content'] for chunk in chunks]
ChunkTexts(chs) == [i \in 1..Len(chs) |-> chs[i].content]

\* (mutant) an add_documents that extends self.documents before index.add
add_documents_result_ExtendFirst(s, emb, docs) ==
    IF ~s.index.present
    THEN IF Len(emb.rows) = 0
         THEN [s EXCEPT !.ret = "False"]
         ELSE [s EXCEPT !.dimension = emb.d,
                        !.index = IndexAdd(IndexFlatL2(emb.d), emb),
                        !.documents = docs, !.aliased = FALSE, !.ret = "True"]
    ELSE IF IndexAddRaises(s.index, emb)
    THEN [s EXCEPT !.documents = @ \o docs, !.ret = "False"]
    ELSE [s EXCEPT !.index = IndexAdd(@, emb),
                   !.documents = @ \o docs,
                   !.session = IF s.aliased
                               THEN [@ EXCEPT !.documents = s.documents \o docs]
                               ELSE @,
                   !.ret = "True"]

\* add_documents(emb, docs) called on the store s: the store it leaves and
\* what it returns
add_documents_result(s, emb, docs) ==
    IF ~s.index.present
    THEN IF Len(emb.rows) = 0
         THEN [s EXCEPT !.ret = "False"]
         ELSE [s EXCEPT !.dimension = emb.d,
                        !.index = IndexAdd(IndexFlatL2(emb.d), emb),
                        !.documents = docs, !.aliased = FALSE, !.ret = "True"]
    ELSE IF IndexAddRaises(s.index, emb)
    THEN [s EXCEPT !.ret = "False"]
    ELSE [s EXCEPT !.index = IndexAdd(@, emb),
                   !.documents = @ \o docs,
                   !.session = IF s.aliased
                               THEN [@ EXCEPT !.documents = s.documents \o docs]
                               ELSE @,
                   !.ret = "True"]

\* process_documents_for_embedding(docs, size) where it returns
Processed(docs, size) == ProcessFrom(docs, size, 1, <<>>).processed_chunks

\* [doc for doc in extracted_docs if len(doc['content']) > 100]
RECURSIVE Successful(_)
Successful(extracted) ==
    IF extracted = <<>> THEN <<>>
    ELSE (IF Len(Head(extracted).content) > MinContent THEN <<Head(extracted)>> ELSE <<>>)
           \o Successful(Tail(extracted))

\* lines 255-272 and 313-322: chunk the documents, embed the chunks, and add
\* them if the array is not empty
IngestGuarded(s, docs, size, provider) ==
    LET chs == Processed(docs, size)
        emb == generate_embeddings(ChunkTexts(chs), provider)
    IN  IF docs = <<>> \/ chs = <<>> \/ ArraySize(emb) = 0
        THEN s
        ELSE add_documents_result(s, emb, chs)

\* lines 466-468, 481-483 and 493-495: chunk one book, embed the chunks and
\* add them, whatever the array
IngestBook(s, book, provider) ==
    LET chs == Processed(<<book>>, 1000)
    IN  add_documents_result(s, generate_embeddings(ChunkTexts(chs), provider), chs)

\* for book in books: ...
RECURSIVE IngestBooks(_, _, _)
IngestBooks(s, books, provider) ==
    IF books = <<>> THEN s
    ELSE IngestBooks(IngestBook(s, Head(books), provider), Tail(books), provider)

\* the store a handler starts from
StoreNow ==
    [index |-> index, documents |-> documents, dimension |-> dimension,
     session |-> session, aliased |-> aliased, ret |-> "None"]

\* the store a handler leaves, and the record of the handler
Ingested(s, path, provider, books, extracted) ==
    /\ Len(s.documents) <= MaxSize
    /\ index' = s.index /\ documents' = s.documents /\ dimension' = s.dimension
    /\ session' = s.session /\ aliased' = s.aliased
    /\ ret' = s.ret /\ msg' = "none"
    /\ call' = [NoCall EXCEPT !.op = path]
    /\ results' = <<>> /\ found' = NoFound /\ snap' = NoSnap
    /\ flow' = [path |-> path, provider |-> provider, books |-> books,
                extracted |-> extracted]
    /\ UNCHANGED <<fvars, cvars, pvars, gvars, tvars>>

\* the research run, app.py 204-272: the books found and the successful
\* extractions are chunked, embedded and added
research_run(books, extracted, size, provider) ==
    Ingested(IngestGuarded(StoreNow, books \o Successful(extracted), size, provider),
             "research", provider, books, extracted)

\* "Process Uploaded Files", app.py 303-322
upload_files(files, size, provider) ==
    Ingested(IngestGuarded(StoreNow, files, size, provider),
             "upload", provider, files, <<>>)

\* "Fetch from Gutenberg" and "Fetch from Internet Archive", app.py 459-485
corpus_fetch(books, provider) ==
    Ingested(IngestBooks(StoreNow, books, provider), "corpus", provider, books, <<>>)

\* "Process Local File", app.py 487-496
local_text(book, provider) ==
    Ingested(IngestBook(StoreNow, book, provider), "local", provider, <<book>>, <<>>)

NextApp ==
    \/ \E books \in SeqsUpTo({BookRecord(MinContent + 2)}, 0, 1),
          extracted \in Extractions, size \in SliderSizes,
          provider \in Providers : research_run(books, extracted, size, provider)
    \/ \E files \in Books, size \in SliderSizes, provider \in Providers :
          upload_files(files, size, provider)
    \/ \E books \in Books, provider \in Providers : corpus_fetch(books, provider)
    \/ \E book \in {BookRecord(0), BookRecord(MinContent + 2)}, provider \in Providers :
          local_text(book, provider)
    \/ clear

SpecApp == Init /\ [][NextApp]_vars

(* --------------------- two threads on one store ------------------------ *)
\* One thread is inside a call that assigns the store's fields, statement by
\* statement; another calls search or save_to_session_state at any moment.
\* No statement of vector_store.py takes a lock, so every interleaving of
\* the statements is a run.
ThreadRest == <<call, ret, msg, results, found, snap, fvars, cvars, pvars, gvars, avars>>

\* no call that assigns the store is under way
Quiet == writer.pc \in {"idle", "done"}

At(line) == [writer EXCEPT !.pc = line]
Finished == [writer EXCEPT !.pc = "done", !.emb = Empty1D, !.docs = <<>>]

\* a thread enters add_documents(emb, docs); line 60 sends it to create_index
\* when self.index is None
enter_add_documents(emb, docs) ==
    /\ Quiet
    /\ ntotal(index) + Len(emb.rows) <= MaxSize
    /\ Len(documents) + Len(docs) <= MaxSize
    /\ writer' = [op |-> "add_documents",
                  pc |-> IF index.present THEN "add_64" ELSE "create_28",
                  emb |-> emb, docs |-> docs, before |-> store]
    /\ reader' = NoReader
    /\ UNCHANGED <<index, documents, dimension, session, aliased, ThreadRest>>

\* a thread enters load_from_session_state; line 148 ends the call when
\* there is no session entry
enter_load_from_session_state ==
    /\ Quiet
    /\ writer' = [op |-> "load_from_session_state",
                  pc |-> IF session.present THEN "load_156" ELSE "done",
                  emb |-> Empty1D, docs |-> <<>>, before |-> store]
    /\ reader' = NoReader
    /\ UNCHANGED <<index, documents, dimension, session, aliased, ThreadRest>>

\* a thread enters clear
enter_clear ==
    /\ Quiet
    /\ writer' = [op |-> "clear", pc |-> "clear_172",
                  emb |-> Empty1D, docs |-> <<>>, before |-> store]
    /\ reader' = NoReader
    /\ UNCHANGED <<index, documents, dimension, session, aliased, ThreadRest>>

\* the statements of create_index, lines 28-42
create_index_step ==
    /\ UNCHANGED <<reader, ThreadRest, session>>
    /\ \/ /\ writer.pc = "create_28"
          /\ writer' = IF Len(writer.emb.rows) = 0 THEN Finished ELSE At("create_33")
          /\ UNCHANGED <<index, documents, dimension, aliased>>
       \/ /\ writer.pc = "create_33"
          /\ dimension' = writer.emb.d
          /\ writer' = At("create_36")
          /\ UNCHANGED <<index, documents, aliased>>
       \/ /\ writer.pc = "create_36"
          /\ index' = IndexFlatL2(dimension)
          /\ writer' = At("create_39")
          /\ UNCHANGED <<documents, dimension, aliased>>
       \/ /\ writer.pc = "create_39"
          /\ index' = IndexAdd(index, writer.emb)
          /\ writer' = At("create_42")
          /\ UNCHANGED <<documents, dimension, aliased>>
       \/ /\ writer.pc = "create_42"
          /\ documents' = writer.docs
          /\ aliased' = FALSE
          /\ writer' = Finished
          /\ UNCHANGED <<index, dimension>>

\* the statements of add_documents on a bound store, lines 64 and 67
add_documents_step ==
    /\ UNCHANGED <<reader, ThreadRest, dimension, aliased>>
    /\ \/ /\ writer.pc = "add_64"
          /\ IF IndexAddRaises(index, writer.emb)
             THEN writer' = Finished /\ UNCHANGED index
             ELSE writer' = At("add_67") /\ index' = IndexAdd(index, writer.emb)
          /\ UNCHANGED <<documents, session>>
       \/ /\ writer.pc = "add_67"
          /\ documents' = documents \o writer.docs
          /\ session' = Shared(documents')
          /\ writer' = Finished
          /\ UNCHANGED index

\* the statements of load_from_session_state, lines 156, 159 and 160
load_step ==
    /\ UNCHANGED <<reader, ThreadRest, session>>
    /\ \/ /\ writer.pc = "load_156"
          /\ index' = read_index(session.index_bytes)
          /\ writer' = At("load_159")
          /\ UNCHANGED <<documents, dimension, aliased>>
       \/ /\ writer.pc = "load_159"
          /\ documents' = session.documents
          /\ aliased' = TRUE
          /\ writer' = At("load_160")
          /\ UNCHANGED <<index, dimension>>
       \/ /\ writer.pc = "load_160"
          /\ dimension' = session.dimension
          /\ writer' = Finished
          /\ UNCHANGED <<index, documents, aliased>>

\* the statements of clear, lines 172-177
clear_step ==
    /\ UNCHANGED <<reader, ThreadRest>>
    /\ \/ /\ writer.pc = "clear_172"
          /\ index' = NoIndex
          /\ writer' = At("clear_173")
          /\ UNCHANGED <<documents, dimension, session, aliased>>
       \/ /\ writer.pc = "clear_173"
          /\ documents' = <<>>
          /\ aliased' = FALSE
          /\ writer' = At("clear_174")
          /\ UNCHANGED <<index, dimension, session>>
       \/ /\ writer.pc = "clear_174"
          /\ dimension' = NoDimension
          /\ writer' = At("clear_176")
          /\ UNCHANGED <<index, documents, session, aliased>>
       \/ /\ writer.pc = "clear_176"
          /\ session' = NoSession
          /\ writer' = Finished
          /\ UNCHANGED <<index, documents, dimension, aliased>>

\* the other thread calls search: what line 88 finds in self.index and
\* self.documents
search_reads ==
    /\ reader' = [op |-> "search", during |-> ~Quiet, seen |-> store]
    /\ UNCHANGED <<index, documents, dimension, session, aliased, writer, ThreadRest>>

\* the other thread calls save_to_session_state: the fields it writes to the
\* session entry, lines 127-138
save_reads ==
    /\ reader' = [op |-> "save_to_session_state", during |-> ~Quiet, seen |-> store]
    /\ IF index.present
       THEN /\ session' = [present |-> TRUE, keys |-> Keys,
                           index_bytes |-> write_index(index),
                           documents |-> documents,
                           dimension |-> dimension]
            /\ aliased' = TRUE
       ELSE UNCHANGED <<session, aliased>>
    /\ UNCHANGED <<index, documents, dimension, writer, ThreadRest>>

NextThreads ==
    \/ \E emb \in EmbArrays : enter_add_documents(emb, DocBatch(emb, Len(emb.rows)))
    \/ enter_load_from_session_state
    \/ enter_clear
    \/ create_index_step
    \/ add_documents_step
    \/ load_step
    \/ clear_step
    \/ search_reads
    \/ save_reads

SpecThreads == Init /\ [][NextThreads]_vars

(* ------------------------------ claims --------------------------------- *)
stats == get_stats(index, documents, dimension)

\* C1: in every reachable state the index holds as many vectors as there are
\* chunk records (index_size = num_documents), and the chunk at position i is
\* the one that was added together with vector i.
C1_Lockstep ==
    /\ stats.index_size = stats.num_documents
    /\ \A i \in 1..Len(documents) :
          i <= ntotal(index) /\ documents[i].emb = index.xb[i]

\* C2: an add (add_documents, or create_index on an unbound store) called with
\* a number of vectors different from the number of chunks fails and applies
\* nothing: get_stats() is the same before and after, nothing is appended.
C2_AddAtomic ==
    [][(call'.op \in {"add_documents", "create_index"} /\ call'.n # call'.m)
         => /\ ret' = "False"
            /\ get_stats(index', documents', dimension') = stats
            /\ index' = index /\ documents' = documents]_vars

\* C3: once the store is bound to dimension D, every add_documents call whose
\* vectors have another dimension fails and leaves get_stats() and the chunk
\* sequence unchanged.
C3_DimensionLock ==
    [][(call'.op = "add_documents" /\ index.present /\ call'.d # dimension)
         => /\ ret' = "False"
            /\ get_stats(index', documents', dimension') = stats
            /\ documents' = documents]_vars

\* C3 witness: a bound, non-empty store that has just refused a batch of rows
\* of the other width
C3_Witness ==
    /\ call.op = "add_documents" /\ ret = "False"
    /\ index.present /\ ntotal(index) >= 1
    /\ call.n >= 1 /\ call.d \in Dims /\ call.d # dimension

\* C4: the first successful add_documents on an unbound store binds it to the
\* dimension D of that batch, and the reported dimension stays D across every
\* later call that is not clear or a load (add_documents, successful or
\* failed, among them).
C4_DimensionBinding ==
    [][/\ (call'.op = "add_documents" /\ ~index.present /\ dimension = NoDimension)
           => IF ret' = "True"
              THEN dimension' = call'.d /\ index'.present /\ index'.d = call'.d
              ELSE dimension' = NoDimension /\ ~index'.present
       /\ (call'.op \notin {"clear", "load_from_session_state", "fresh_load"}
            /\ dimension # NoDimension)
           => get_stats(index', documents', dimension').dimension = dimension]_vars

\* C4 witness: a store bound by an earlier batch has taken a further batch and
\* still reports that width
C4_Witness ==
    /\ call.op = "add_documents" /\ ret = "True"
    /\ ntotal(index) > call.n
    /\ stats.dimension = call.d /\ index.d = call.d

\* C5: save_to_session_state followed at once by load_from_session_state, into
\* the same or a fresh store, yields identical get_stats(), the identical chunk
\* sequence and identical search(q, k) results for every q and k.
C5_RoundTrip ==
    snap.phase = "roundtrip"
      => /\ stats = get_stats(snap.index, snap.documents, snap.dimension)
         /\ documents = snap.documents
         /\ \A q \in AllVectors, k \in 1..MaxK :
               SearchOutcome(index, documents, q, k)
                 = SearchOutcome(snap.index, snap.documents, q, k)

\* C5 witness: a store of two chunks of width 2 restored straight after its save
C5_Witness ==
    /\ snap.phase = "roundtrip"
    /\ Len(documents) = 2 /\ ntotal(index) = 2 /\ dimension = 2
    /\ index.xb[1] # index.xb[2]

\* C6: a saved snapshot is the store as it was when it was saved: after save,
\* one or more successful add_documents, then load, the loaded store has the
\* chunk count, chunk sequence and vector count it had at the save.
C6_SnapshotFrozen ==
    snap.phase = "loaded"
      => /\ Len(documents) = Len(snap.documents)
         /\ documents = snap.documents
         /\ ntotal(index) = ntotal(snap.index)

\* C7: whenever load_from_session_state fails on a malformed snapshot, it
\* reports failure and index, chunk sequence and dimension are what they were
\* before the call.
C7_FailedLoadKeepsStore ==
    [][(call'.op = "load_from_session_state" /\ session.present
        /\ (session.keys # Keys \/ ReadIndexRaises(session.index_bytes)))
         => /\ ret' = "False"
            /\ index' = index /\ documents' = documents
            /\ dimension' = dimension]_vars

\* the chunks ranked by the squared distance of their own vector to q, chunks
\* as near as each other in insertion order: the place of chunk i
PlaceOf(docs, q, i) ==
    1 + Cardinality({j \in 1..Len(docs) :
          \/ L2sqr(docs[j].emb, q) < L2sqr(docs[i].emb, q)
          \/ L2sqr(docs[j].emb, q) = L2sqr(docs[i].emb, q) /\ j < i})

ExpectedTopK(docs, q, k) ==
    [p \in 1..(IF k < Len(docs) THEN k ELSE Len(docs)) |->
        LET i == CHOOSE j \in 1..Len(docs) : PlaceOf(docs, q, j) = p
        IN  [doc |-> docs[i],
             similarity |-> [num |-> 1, den |-> 1 + L2sqr(docs[i].emb, q)]]]

\* C8: on a non-empty store and for k >= 1, search(q, k) returns exactly
\* min(k, size) results: the first min(k, size) stored chunks by ascending
\* squared distance to q, equal distances in insertion order.
C8_TopK ==
    (call.op = "search" /\ Len(documents) > 0 /\ Len(call.q) = dimension)
      => /\ Len(results) = (IF call.k < Len(documents) THEN call.k ELSE Len(documents))
         /\ results = ExpectedTopK(documents, call.q, call.k)

NoHits == ResultsFrom(documents, NoFound, 1)

\* C10: search with a query of another dimension than the store's fails with
\* an outcome the caller can tell apart from a search that found no results,
\* and leaves the store unchanged.
C10_MismatchDistinct ==
    [][(call'.op = "search" /\ ~SearchSeesEmpty(index, documents)
        /\ Len(call'.q) # index.d)
         => /\ results' # NoHits
            /\ index' = index /\ documents' = documents
            /\ dimension' = dimension]_vars

\* C11 (as stated): every result carries similarity = 1 / (1 + distance), a
\* value in (0, 1], and of two results the one with the strictly smaller
\* distance has the strictly greater score.
C11_StrictlyDecreasing ==
    score # <<>>
      => /\ \A i \in 1..2 : FLess(FZero, score[i]) /\ ~FLess(FOne(arith), score[i])
         /\ FLess(dist[1], dist[2]) => FLess(score[2], score[1])

\* C11 (amended): every result carries similarity = 1 / (1 + distance), a
\* value in (0, 1], and of two results the one with the smaller distance never
\* has the smaller score (the scores may be equal).
C11_NonIncreasing ==
    score # <<>>
      => /\ \A i \in 1..2 : /\ score[i] = similarity(dist[i], arith)
                            /\ FLess(FZero, score[i])
                            /\ ~FLess(FOne(arith), score[i])
         /\ FLess(dist[1], dist[2]) => ~FLess(score[1], score[2])

\* C11 witness: two results at different non-zero distances whose scores
\* differ, the nearer one scoring higher and neither scoring 1
C11_Witness ==
    /\ score # <<>>
    /\ FLess(FZero, dist[1]) /\ FLess(dist[1], dist[2])
    /\ FLess(score[2], score[1]) /\ FLess(score[1], FOne(arith))

\* C12: search and get_stats are pure reads: neither changes the index, the
\* chunk sequence, the dimension or the saved snapshot, so the same search
\* made again on the state a search left returns the same ordered results.
C12_PureReads ==
    [][(call'.op \in {"search", "get_stats"})
         => /\ index' = index /\ documents' = documents /\ dimension' = dimension
            /\ session' = session
            /\ get_stats(index', documents', dimension') = stats
            /\ call'.op = "search"
                 => results' = SearchOutcome(index', documents', call'.q, call'.k).results]_vars

\* C12 witness: a search that returned two results from a store of two chunks
\* beside a saved snapshot
C12_Witness ==
    /\ call.op = "search" /\ Len(results) = 2
    /\ Len(documents) = 2 /\ session.present

\* C13: clear() executed in any reachable state leaves no index, no chunks, no
\* dimension and a chunk count of 0, and a second clear() right after it
\* leaves every field as the first one left it.
C13_ClearEmpties ==
    [][call'.op = "clear"
         => /\ index' = NoIndex /\ documents' = <<>> /\ dimension' = NoDimension
            /\ session' = NoSession
            /\ get_stats(index', documents', dimension')
                 = [num_documents |-> 0, dimension |-> NoDimension,
                    has_index |-> FALSE, index_size |-> 0]
            /\ call.op = "clear"
                 => <<index', documents', dimension', session', aliased'>>
                      = <<index, documents, dimension, session, aliased>>]_vars

\* C13 witness: the store just cleared
C13_Witness ==
    /\ call.op = "clear" /\ msg = "success"
    /\ ~index.present /\ Len(documents) = 0 /\ stats.num_documents = 0

\* C14: for every text and chunk_size with len(text) <= chunk_size, chunk_text
\* returns the one-element sequence [text], the text unchanged (not trimmed,
\* not split).
C14_ShortTextWhole ==
    (pc # "idle" /\ Len(text) <= chunk_size)
      => pc = "returned" /\ chunks = <<text>>

\* C14 witness: a text with a blank at either end and a sentence end inside,
\* no longer than chunk_size, returned as it is
C14_Witness ==
    /\ pc = "returned" /\ Len(text) <= chunk_size
    /\ Len(text) >= 3 /\ text[1] = " " /\ text[Len(text)] = " " /\ text[2] = "."
    /\ chunks = <<text>>

\* C15: for every text (the empty and the all-blank ones included) and every
\* chunk_size > 0, no element of the sequence chunk_text returns is empty
\* after trimming; the empty string yields the empty sequence.
C15_NoBlankChunk ==
    (pc = "returned" /\ chunk_size > 0)
      => /\ \A i \in 1..Len(chunks) : Strip(chunks[i]) # <<>>
         /\ text = <<>> => chunks = <<>>

\* the positions (1-based) of text that lie in some window of a returned chunk
Covered == {p \in 1..Len(text) : \E w \in 1..Len(windows) :
                                   windows[w].lo < p /\ p <= windows[w].hi}

\* C16: for every text longer than chunk_size, whenever chunk_text returns,
\* every non-blank character position of the text lies inside the window of
\* at least one returned chunk.
C16_NoGap ==
    (pc = "returned" /\ Len(text) > chunk_size)
      => \A p \in 1..Len(text) : text[p] # " " => p \in Covered

\* C16 witness: a text cut into three or more windows, the cut moved by a
\* sentence end at least once, every position covered
C16_Witness ==
    /\ pc = "returned" /\ Len(text) > chunk_size /\ overlap > 0
    /\ Len(windows) >= 3
    /\ \E w \in 1..Len(windows) : windows[w].hi - windows[w].lo # chunk_size
                                    /\ windows[w].hi < Len(text)
    /\ Covered = 1..Len(text)

\* C17: for chunk_size = S > 0 and every text, every chunk chunk_text has
\* appended is at most S characters long plus the slack of the boundary
\* search; the slack is one character (end = i + 1 with i <= start + S), well
\* within the 100 of the look-back.
C17_ChunkLength ==
    (pc # "idle" /\ chunk_size > 0)
      => /\ \A i \in 1..Len(chunks) :
               /\ Len(chunks[i]) <= chunk_size + 1
               /\ windows[i].hi - windows[i].lo <= chunk_size + 1
         /\ 1 <= Lookback

\* C17 witness: a returned chunk one character longer than chunk_size
C17_Witness ==
    /\ pc = "returned" /\ chunk_size > 0 /\ Len(chunks) >= 2
    /\ \E i \in 1..Len(chunks) : Len(chunks[i]) = chunk_size + 1

\* C18: chunk_text terminates for every text, every chunk_size > 0 and every
\* overlap >= 0 (overlap >= chunk_size included): the loop never comes back to
\* a start offset it was entered with before, and it is not left by an error.
C18_Terminates ==
    (chunk_size > 0 /\ overlap >= 0)
      => /\ pc = "loop" => start \notin seen
         /\ pc # "IndexError"

\* C19: chunk_text called with chunk_size <= 0 is rejected up front, for every
\* text: it neither returns a chunk sequence nor enters the scanning loop.
C19_RejectsBadSize ==
    (pc # "idle" /\ chunk_size <= 0)
      => pc \notin {"loop", "returned", "IndexError"}

\* what chunk_text makes of each document of the call: the segments of its
\* content, none for a document without content
Segments ==
    [k \in 1..Len(input_documents) |->
        IF GetContent(input_documents[k]) = <<>>
        THEN [outcome |-> "returned", chunks |-> <<>>]
        ELSE chunk_text_result(GetContent(input_documents[k]), arg_chunk_size,
                               DefaultOverlap)]

\* the number of records documents 1..k account for
RECURSIVE RecordsUpTo(_, _)
RecordsUpTo(segs, k) ==
    IF k = 0 THEN 0 ELSE RecordsUpTo(segs, k - 1) + Len(segs[k].chunks)

\* the returned list is, document after document, one record per segment
RecordsMatch(segs) ==
    /\ Len(processed_chunks) = RecordsUpTo(segs, Len(segs))
    /\ \A k \in 1..Len(segs) : \A j \in 1..Len(segs[k].chunks) :
          processed_chunks[RecordsUpTo(segs, k - 1) + j]
            = [content |-> segs[k].chunks[j], title |-> input_documents[k].title,
               chunk_id |-> j - 1, total_chunks |-> Len(segs[k].chunks)]
    /\ \A p \in 1..Len(processed_chunks) :
          /\ 0 <= processed_chunks[p].chunk_id
          /\ processed_chunks[p].chunk_id < processed_chunks[p].total_chunks

\* the call returns whenever chunk_text returns for each document
ReturnsIfChunked(segs) ==
    (\A k \in 1..Len(segs) : segs[k].outcome = "returned") => outcome = "returned"

\* C20: process_documents_for_embedding returns, in input-document order, one
\* chunk record per segment chunk_text produces for each document with
\* content; the j-th segment of a document gets chunk_id j (0-based) and
\* total_chunks the document's segment count, so chunk_id < total_chunks;
\* documents with empty or missing content add no record and raise no error.
C20_ChunkRecords ==
    /\ outcome = "returned" => RecordsMatch(Segments)
    /\ outcome # "idle" => ReturnsIfChunked(Segments)

\* C20 witness: three documents, the second without content, the first cut
\* into three segments, the last into one
C20_Witness ==
    /\ outcome = "returned" /\ Len(input_documents) = 3
    /\ GetContent(input_documents[2]) = <<>>
    /\ Len(processed_chunks) = 4
    /\ processed_chunks[3] = [content |-> processed_chunks[3].content, title |-> 1,
                              chunk_id |-> 2, total_chunks |-> 3]
    /\ processed_chunks[4].title = 3 /\ processed_chunks[4].total_chunks = 1

\* C29: after add_documents and save_to_session_state calls followed by
\* clear(), the session entry is gone; a load_from_session_state that comes
\* next returns False and leaves the store empty and unbound
C29_ClearDiscardsSnapshot ==
    /\ snap.phase = "cleared" => ~session.present
    /\ snap.phase = "reloaded" =>
         /\ ret = "False"
         /\ ~index.present /\ documents = <<>> /\ dimension = NoDimension
         /\ ~session.present

\* C29 witness: a load on the same store right after a clear that followed a
\* save
C29_Witness ==
    /\ snap.phase = "reloaded"
    /\ call.op = "load_from_session_state"
    /\ ret = "False" /\ msg = "none"

\* the entries search would return if it kept only the places whose label is
\* an ordinal position of the chunk list
RECURSIVE MatchedFrom(_, _, _)
MatchedFrom(docs, fnd, p) ==
    IF p > Len(fnd.I) THEN <<>>
    ELSE (IF fnd.I[p] >= 0 /\ fnd.I[p] < Len(docs)
          THEN <<[doc |-> docs[fnd.I[p] + 1],
                  similarity |-> Similarity(fnd.D[p])]>>
          ELSE <<>>) \o MatchedFrom(docs, fnd, p + 1)

\* C30: every entry search returns is the chunk at the position of a vector
\* the index matched: a place labelled -1 or labelled outside
\* 0..len(documents)-1 gives no entry
C30_OnlyMatchedPositions ==
    call.op = "search" => results = MatchedFrom(documents, found, 1)

\* C25: with 0 <= overlap < chunk_size the start offset is never negative and
\* is greater after every turn of the loop than it was at every turn before
C25_StartIncreases ==
    (pc # "idle" /\ 0 <= overlap /\ overlap < chunk_size) =>
        /\ start >= 0
        /\ \A s \in seen : s < start

\* C26: when chunk_text returns, every chunk after the first has a window
\* that reaches beyond the end of the window of the chunk before it
C26_NewGround ==
    pc = "returned" =>
        \A j \in 2..Len(windows) : windows[j].hi > windows[j - 1].hi

\* a turn of the loop that cut a window which is not the last one: the
\* boundary start + chunk_size lies inside the text and no IndexError ended it
NonFinalTurn ==
    /\ pc = "loop" /\ pc' \in {"loop", "returned"}
    /\ start < Len(text) /\ start + chunk_size < Len(text)

\* the end of the window that turn cut (line 90: start = end - overlap)
EndCut == start' + overlap

\* the sentence ends among the indices of a set, read as text[i] reads them
TerminatorsIn(range) == {i \in range : ~PyIndexRaises(text, i) /\ PyItem(text, i) = "."}

\* the nearest sentence end of a set of indices below or at the boundary
NearestEnd(range) == CHOOSE i \in TerminatorsIn(range) : \A j \in TerminatorsIn(range) : j <= i

\* the min(chunk_size/2, 100) characters before the boundary start+chunk_size
BeforeBoundary ==
    {i \in (start + chunk_size - Lookback)..(start + chunk_size - 1) :
        2 * (start + chunk_size - i) <= chunk_size}

\* the indices line 81 visits: from the boundary itself down to, and without,
\* max(start + chunk_size // 2, boundary - 100)
Visited ==
    {i \in (start + chunk_size - Lookback)..(start + chunk_size) :
        i > start + (chunk_size \div 2) /\ i > start + chunk_size - Lookback}

C23_WitnessAtBoundary ==
    /\ pc # "idle" /\ chunk_size = 500 /\ Len(text) = LongLen
    /\ text[401] = "."
    /\ Len(windows) >= 1 /\ windows[1] = [lo |-> 0, hi |-> 500]

\* the summed length of the formatted texts of the first n context documents
RECURSIVE FormattedLength(_)
FormattedLength(n) ==
    IF n = 0 THEN 0
    ELSE FormattedLength(n - 1) + Len(doc_text(context_documents[n]))

\* the number of documents in the longest prefix that fits the budget
LongestPrefix ==
    CHOOSE n \in 0..Len(context_documents) :
        /\ FormattedLength(n) <= max_context_length
        /\ \A k \in 0..Len(context_documents) :
             FormattedLength(k) <= max_context_length => k <= n

\* C21: the context holds the formatted texts of exactly the longest prefix
\* of the documents whose lengths sum to at most max_context_length, in
\* order; nothing after the first document that does not fit is included
C21_LongestPrefix ==
    answered = "prompted" =>
        /\ Len(context_parts) = LongestPrefix
        /\ \A i \in 1..Len(context_parts) :
             context_parts[i] = doc_text(context_documents[i])

\* C21 witness: three documents, the second does not fit after the first,
\* the third would have fitted and is left out
C21_Witness ==
    /\ answered = "prompted" /\ Len(context_documents) = 3
    /\ Len(context_parts) = 1
    /\ FormattedLength(1) + Len(doc_text(context_documents[3])) <= max_context_length
    /\ FormattedLength(2) > max_context_length

\* C28: the context put into the prompt, separators included, is at most
\* max_context_length characters long
C28_ContextWithinBudget ==
    answered = "prompted" => Len(context) <= max_context_length

Paths == {"research", "upload", "corpus", "local"}

\* C24: an ingestion of the application that ran while generate_embeddings
\* returned the empty array leaves index, documents and dimension as they
\* were; an unbound store stays unbound
C24_FailedEmbeddingNoChange ==
    [][(call'.op \in Paths /\ flow'.provider = "down")
         => /\ index' = index /\ documents' = documents /\ dimension' = dimension
            /\ ~index.present => ~index'.present /\ dimension' = NoDimension]_vars

\* C24 witness: the unguarded path of the corpus loader met a bound store
\* with a book that has text while the provider was down; add_documents was
\* called with the empty array and returned False
C24_Witness ==
    /\ call.op = "corpus" /\ flow.provider = "down"
    /\ Len(flow.books) >= 1 /\ flow.books[1].content # <<>>
    /\ index.present /\ Len(documents) >= 1
    /\ ret = "False"

\* C27: no chunk of the store comes from an error record of extract_from_url
\* (in the model the records titled 'Error' are the error records)
C27_NoFailedExtraction ==
    \A i \in 1..Len(documents) : documents[i].title # "Error"

\* C22: what a search or a save_to_session_state reads while an
\* add_documents, a load_from_session_state or a clear is under way is the
\* store as that call met it or the store as that call leaves it, never a
\* state in between
C22_NoIntermediateObserved ==
    (reader.during /\ writer.pc = "done")
        => reader.seen = writer.before \/ reader.seen = store

====
